---------------------------- MODULE Spec2Model ----------------------------
(***************************************************************************)
(* A model of calrissian: the volume builder, the job builder, the         *)
(* lifecycle of one CalrissianCommandLineJob and the process entry point.  *)
(*                                                                         *)
(* Python strings are sequences of one-character strings, so that          *)
(* str.startswith, slicing, str.replace and str.join are computed          *)
(* character by character.  A Python dict is a sequence of entries with    *)
(* pairwise distinct keys, in insertion order.                             *)
(***************************************************************************)
EXTENDS Integers, Sequences, FiniteSets, TLC

VARIABLES
    volume_builder,   \* a KubernetesVolumeBuilder: persistent_volume_entries,
                      \* volumes, volume_mounts
    requests,         \* the add_volume_binding calls that succeeded, in order:
                      \* the arguments of the call behind the i-th binding
    result,           \* the last call made on it, and how it ended
    job_builder,      \* a KubernetesJobBuilder (None before one is made)
    returned,         \* the last call made on it, and what it returned
    job,              \* a CalrissianCommandLineJob: name, outdir, tmpdir,
                      \* builder_outdir, inplace_update, environment
    pc,               \* where run() is
    steps,            \* the steps run() has taken, and how each ended
    fs,               \* the local filesystem: directories made, copies made
    client,           \* the KubernetesClient: jobs submitted, phase of the job
    callbacks,        \* the calls of output_callback: the status of each
    main_pc,          \* where main() is
    proc,             \* the process: handler installed, handle_sigterm frames,
                      \* exception in flight, result of cwlmain, exit code
    cluster           \* the jobs this process submitted, the delete_pods calls

volVars == <<volume_builder, requests, result>>
jobVars == <<job_builder, returned>>
runVars == <<job, pc, steps, fs, client, callbacks>>
mainVars == <<main_pc, proc, cluster>>
vars == <<volume_builder, requests, result, job_builder, returned,
          job, pc, steps, fs, client, callbacks, main_pc, proc, cluster>>

-----------------------------------------------------------------------------
(* Values and string helpers                                               *)

\* Python's None where a dict is expected
None == [none |-> TRUE]

\* Python's None where a string is expected (no string has a 4-character element)
NoneStr == <<"None">>

\* truth value of an Optional[str]: None and '' are false
Truthy(s) == s # NoneStr /\ s # <<>>

\* str.startswith
startswith(s, prefix) ==
    /\ Len(prefix) <= Len(s)
    /\ \A i \in 1..Len(prefix) : s[i] = prefix[i]

\* str.replace(old, new) for one-character old and new
replace(s, old, new) == [i \in 1..Len(s) |-> IF s[i] = old THEN new ELSE s[i]]

\* '{}-{}-{}'.format(a, b, c)
format3(a, b, c) == a \o <<"-">> \o b \o <<"-">> \o c

-----------------------------------------------------------------------------
(* What the calls leave behind for the properties to read                  *)

\* a call on the volume builder: its source, the entry found, the exception
Call(op, source, pv, raised) ==
    [op |-> op, source |-> source, pv |-> pv, raised |-> raised]

\* the arguments of one add_volume_binding call, and the method that made it
Request(base_name, source, target, note, writable, by) ==
    [base_name |-> base_name, source |-> source, target |-> target,
     note |-> note, writable |-> writable, by |-> by]

\* what a call on the job builder leaves behind: the builder it was made on,
\* the value returned and the exception raised
Returned(op, value, raised, before) ==
    [op |-> op, value |-> value, raised |-> raised, before |-> before]

\* no process is running main()
MainIdle ==
    /\ main_pc = ""
    /\ proc = [installed |-> FALSE, frames |-> <<>>, raising |-> "", signals |-> 0,
               handled |-> 0, result |-> -1, exit_code |-> -1]
    /\ cluster = [submitted |-> {}, delete_calls |-> <<>>]

\* no job is running
RunIdle ==
    /\ job = None
    /\ pc = ""
    /\ steps = <<>>
    /\ fs = [made |-> {}, copies |-> {}, mkdtemp |-> 0]
    /\ client = [submitted |-> <<>>, phase |-> ""]
    /\ callbacks = <<>>

-----------------------------------------------------------------------------
(* k8s_safe_name                                                           *)

k8s_safe_name(name) == replace(name, "_", "-")

-----------------------------------------------------------------------------
(* KubernetesVolumeBuilder                                                 *)

Prefix_input_data == <<"/","c","a","l","r","i","s","s","i","a","n","/","i","n","p","u","t","-","d","a","t","a">>
Prefix_output_data == <<"/","c","a","l","r","i","s","s","i","a","n","/","o","u","t","p","u","t","-","d","a","t","a">>
Prefix_tmptmp == <<"/","c","a","l","r","i","s","s","i","a","n","/","t","m","p","t","m","p">>
Prefix_tmpout == <<"/","c","a","l","r","i","s","s","i","a","n","/","t","m","p","o","u","t">>
Prefix_local_tmpout == <<"/","U","s","e","r","s","/","d","c","l","9","/","C","o","d","e","/","k","8","s","/","c","a","l","r","i","s","s","i","a","n","/","c","w","l","/","t","m","p","/","o","u","t">>
Prefix_local_tmp == <<"/","U","s","e","r","s","/","d","c","l","9","/","C","o","d","e","/","k","8","s","/","c","a","l","r","i","s","s","i","a","n","/","c","w","l","/","t","m","p","/","t","m","p">>
Prefix_local == <<"/","U","s","e","r","s","/","d","c","l","9","/","C","o","d","e","/","k","8","s","/","c","a","l","r","i","s","s","i","a","n","/","c","w","l","/">>

\* the dict value stored for a prefix
entry(prefix, claim_name) ==
    [prefix |-> prefix,
     volume |-> [persistentVolumeClaim |-> [claimName |-> claim_name]]]

\* self.persistent_volume_entries[prefix] = {...}: a new key goes to the end
\* of the dict, an existing key keeps its place and gets the new value
add_persistent_volume_entry(entries, prefix, claim_name) ==
    IF \E i \in 1..Len(entries) : entries[i].prefix = prefix
    THEN [i \in 1..Len(entries) |->
            IF entries[i].prefix = prefix THEN entry(prefix, claim_name)
            ELSE entries[i]]
    ELSE Append(entries, entry(prefix, claim_name))

populate_demo_values ==
    LET e1 == add_persistent_volume_entry(<<>>, Prefix_input_data, "calrissian-input-data")
        e2 == add_persistent_volume_entry(e1, Prefix_output_data, "calrissian-output-data")
        e3 == add_persistent_volume_entry(e2, Prefix_tmptmp, "calrissian-tmp")
        e4 == add_persistent_volume_entry(e3, Prefix_tmpout, "calrissian-tmpout")
        e5 == add_persistent_volume_entry(e4, Prefix_local_tmpout, "local-tmpout")
        e6 == add_persistent_volume_entry(e5, Prefix_local_tmp, "local-tmp")
    IN  add_persistent_volume_entry(e6, Prefix_local, "local")

RECURSIVE find_from(_, _, _)
\* the for loop of find_persistent_volume, from the i-th item of the dict
find_from(entries, source, i) ==
    IF i > Len(entries) THEN None
    ELSE IF startswith(source, entries[i].prefix) THEN entries[i]
    ELSE find_from(entries, source, i + 1)

RECURSIVE find_last_from(_, _, _)
\* a lookup where a later matching entry overrides an earlier one
find_last_from(entries, source, i) ==
    IF i < 1 THEN None
    ELSE IF startswith(source, entries[i].prefix) THEN entries[i]
    ELSE find_last_from(entries, source, i - 1)

find_persistent_volume_last(entries, source) ==
    find_last_from(entries, source, Len(entries))

find_persistent_volume(entries, source) == find_from(entries, source, 1)

\* source[len(prefix):]
calculate_subpath(source, prefix) == SubSeq(source, Len(prefix) + 1, Len(source))

\* string.ascii_uppercase + string.ascii_lowercase: one letter of each case
\* stands for the 26
Letters == {"a", "Z"}

\* random.choices(Letters, k=length), joined.  Of the outcomes the model keeps
\* the tags made of one repeated letter.
random_tag(length) == {[i \in 1..length |-> c] : c \in Letters}

\* KubernetesVolumeBuilder.__init__
KubernetesVolumeBuilder ==
    [persistent_volume_entries |-> populate_demo_values,
     volume_mounts |-> <<>>,
     volumes |-> <<>>]

\* a variant that reuses the binding already made for the same place
add_volume_binding_dedup(self, base_name, source, target, note, writable, tag) ==
    LET pv == find_persistent_volume(self.persistent_volume_entries, source)
    IN  IF pv = None
        THEN [self |-> self, pv |-> pv, raised |-> "VolumeBuilderException"]
        ELSE LET name == k8s_safe_name(format3(base_name, note, tag))
                 volume == pv.volume @@ [name |-> name]
                 volume_mount == [name |-> name,
                                  mountPath |-> target,
                                  subPath |-> calculate_subpath(source, pv.prefix),
                                  readOnly |-> ~writable]
                 seen == \E i \in 1..Len(self.volume_mounts) :
                            /\ self.volume_mounts[i].subPath = volume_mount.subPath
                            /\ self.volumes[i].persistentVolumeClaim
                                  = volume.persistentVolumeClaim
             IN  [self |-> IF seen THEN self
                           ELSE [self EXCEPT !.volumes = Append(@, volume),
                                             !.volume_mounts = Append(@, volume_mount)],
                  pv |-> pv, raised |-> ""]

\* add_volume_binding on the builder `self`; tag is what self.random_tag(8)
\* returns.  The value is the builder afterwards, the entry found and the
\* exception raised ("" when none).
add_volume_binding(self, base_name, source, target, note, writable, tag) ==
    LET pv == find_persistent_volume(self.persistent_volume_entries, source)
    IN  IF pv = None
        THEN [self |-> self, pv |-> pv, raised |-> "VolumeBuilderException"]
        ELSE LET name == k8s_safe_name(format3(base_name, note, tag))
                 \* pv['volume'].copy(); volume['name'] = name
                 volume == pv.volume @@ [name |-> name]
                 volume_mount == [name |-> name,
                                  mountPath |-> target,
                                  subPath |-> calculate_subpath(source, pv.prefix),
                                  readOnly |-> ~writable]
             IN  [self |-> [self EXCEPT !.volumes = Append(@, volume),
                                        !.volume_mounts = Append(@, volume_mount)],
                  pv |-> pv, raised |-> ""]

-----------------------------------------------------------------------------
(* KubernetesJobBuilder                                                    *)

\* dict lookups; a dict is a sequence of [name, value] items
has_key(d, key) == \E i \in 1..Len(d) : d[i].name = key
get(d, key) == d[CHOOSE i \in 1..Len(d) : d[i].name = key].value

RECURSIVE join(_, _)
\* sep.join(words)
join(sep, words) ==
    IF words = <<>> THEN <<>>
    ELSE IF Len(words) = 1 THEN words[1]
    ELSE words[1] \o sep \o join(sep, Tail(words))

\* KubernetesJobBuilder.__init__
KubernetesJobBuilder(name, container_image, environment, volume_mounts, vols, command_line, stdout, stderr, stdin) ==
    [name |-> name, container_image |-> container_image,
     environment |-> environment, volume_mounts |-> volume_mounts,
     volumes |-> vols, command_line |-> command_line,
     stdout |-> stdout, stderr |-> stderr, stdin |-> stdin]

job_name(self) == k8s_safe_name(self.name \o <<"-","j","o","b">>)

container_name(self) ==
    k8s_safe_name(self.name \o <<"-","c","o","n","t","a","i","n","e","r">>)

container_command(self) == <<"/bin/sh", "-c">>

\* a variant that redirects stderr before stdout
container_args_stderr_first(self) ==
    LET c0 == self.command_line
        c1 == IF Truthy(self.stderr) THEN c0 \o <<<<"2", ">">>, self.stderr>> ELSE c0
        c2 == IF Truthy(self.stdout) THEN c1 \o <<<<">">>, self.stdout>> ELSE c1
        c3 == IF Truthy(self.stdin) THEN c2 \o <<<<"<">>, self.stdin>> ELSE c2
    IN  [value |-> <<join(<<" ">>, c3)>>, self |-> self]

\* container_args: the list returned, and the builder afterwards (job_command
\* is a copy, so extending it leaves self.command_line alone)
container_args(self) ==
    LET c0 == self.command_line
        c1 == IF Truthy(self.stdout) THEN c0 \o <<<<">">>, self.stdout>> ELSE c0
        c2 == IF Truthy(self.stderr) THEN c1 \o <<<<"2", ">">>, self.stderr>> ELSE c1
        c3 == IF Truthy(self.stdin) THEN c2 \o <<<<"<">>, self.stdin>> ELSE c2
    IN  [value |-> <<join(<<" ">>, c3)>>, self |-> self]

\* one item per item of the dict, in the dict's order
container_environment(self) ==
    [i \in 1..Len(self.environment) |->
        [name |-> self.environment[i].name, value |-> self.environment[i].value]]

\* self.environment['HOME']; build raises KeyError before this is read when
\* the key is missing
container_workingdir(self) == get(self.environment, "HOME")

\* a variant that restarts failed containers
build_restarting(self) ==
    IF ~has_key(self.environment, "HOME")
    THEN [value |-> None, raised |-> "KeyError", self |-> self]
    ELSE [value |->
            [metadata |-> [name |-> job_name(self)],
             apiVersion |-> "batch/v1",
             kind |-> "Job",
             spec |-> [template |-> [spec |->
                [containers |-> <<
                    [name |-> container_name(self),
                     image |-> self.container_image,
                     command |-> container_command(self),
                     args |-> container_args(self).value,
                     env |-> container_environment(self),
                     volumeMounts |-> self.volume_mounts,
                     workingDir |-> container_workingdir(self)] >>,
                 restartPolicy |-> "OnFailure",
                 volumes |-> self.volumes]]]],
          raised |-> "",
          self |-> container_args(self).self]

\* build: the descriptor returned, the exception raised ("" when none) and the
\* builder afterwards
build(self) ==
    IF ~has_key(self.environment, "HOME")
    THEN [value |-> None, raised |-> "KeyError", self |-> self]
    ELSE [value |->
            [metadata |-> [name |-> job_name(self)],
             apiVersion |-> "batch/v1",
             kind |-> "Job",
             spec |-> [template |-> [spec |->
                [containers |-> <<
                    [name |-> container_name(self),
                     image |-> self.container_image,
                     command |-> container_command(self),
                     args |-> container_args(self).value,
                     env |-> container_environment(self),
                     volumeMounts |-> self.volume_mounts,
                     workingDir |-> container_workingdir(self)] >>,
                 restartPolicy |-> "Never",
                 volumes |-> self.volumes]]]],
          raised |-> "",
          self |-> container_args(self).self]

-----------------------------------------------------------------------------
(* CalrissianCommandLineJob                                                *)

\* how many path mapper items add_volumes hands to the methods below
MaxVolumes == 2

\* d[key] = value
dict_set(d, key, value) ==
    IF has_key(d, key)
    THEN [i \in 1..Len(d) |-> IF d[i].name = key THEN [name |-> key, value |-> value]
                              ELSE d[i]]
    ELSE Append(d, [name |-> key, value |-> value])

\* os.path.join(a, b), for a relative b
path_join(a, b) == a \o <<"/">> \o b

\* os.path.basename: what follows the last '/'
basename(path) ==
    LET slashes == {i \in 1..Len(path) : path[i] = "/"}
        last == IF slashes = {} THEN 0
                ELSE CHOOSE i \in slashes : \A j \in slashes : j <= i
    IN  SubSeq(path, last + 1, Len(path))

\* the one symbolic link of the modelled filesystem: /lnk -> /calrissian/output-data
Symlink == <<"/","l","n","k">>

\* os.path.realpath: a path through the link is the path through its target
realpath(path) ==
    IF startswith(path, Symlink \o <<"/">>)
    THEN Prefix_output_data \o SubSeq(path, Len(Symlink) + 1, Len(path))
    ELSE path

\* tempfile.mkdtemp(dir=dir): a directory that was not there, the n-th made
mkdtemp(dir, n) == path_join(dir, <<"t","m","p">> \o <<<<"0","1","2","3","4">>[n + 1]>>)

Str_tmp == <<"/","t","m","p">>
Note_outdir == <<"o","u","t","d","i","r">>
Note_tmp == <<"t","m","p">>
Note_vol == <<"v","o","l">>

\* one step of run(), and the exception that ended it ("" when none)
Step(name, raised) == [step |-> name, raised |-> raised]

\* the step under way ends with an exception, which leaves run()
Raise(exception) ==
    /\ pc' = "raised"
    /\ steps' = [steps EXCEPT ![Len(steps)].raised = exception]

\* make_tmpdir
make_tmpdir ==
    /\ pc = "make_tmpdir"
    /\ \/ /\ fs' = [fs EXCEPT !.made = @ \cup {job.tmpdir}]
          /\ steps' = Append(steps, Step("make_tmpdir", ""))
          /\ pc' = "populate_env_vars"
       \/ \* os.makedirs fails
          /\ job.tmpdir \notin fs.made
          /\ steps' = Append(steps, Step("make_tmpdir", "OSError"))
          /\ pc' = "raised"
          /\ UNCHANGED fs
    /\ UNCHANGED <<volVars, jobVars, job, client, callbacks, mainVars>>

\* populate_env_vars
populate_env_vars ==
    /\ pc = "populate_env_vars"
    /\ job' = [job EXCEPT !.environment =
                 dict_set(dict_set(@, "HOME", job.builder_outdir), "TMPDIR", Str_tmp)]
    /\ steps' = Append(steps, Step("populate_env_vars", ""))
    /\ pc' = "_setup"
    /\ UNCHANGED <<volVars, jobVars, fs, client, callbacks, mainVars>>

\* self._setup(runtimeContext), the workflow engine's: it returns or raises
_setup ==
    /\ pc = "_setup"
    /\ \E raised \in {"", "WorkflowException"} :
          /\ steps' = Append(steps, Step("_setup", raised))
          /\ pc' = IF raised = "" THEN "create_kubernetes_runtime" ELSE "raised"
    /\ UNCHANGED <<volVars, jobVars, job, fs, client, callbacks, mainVars>>

\* _add_volume_binding: the builder's add_volume_binding under self.name
_add_volume_binding(source, target, note, writable, tag) ==
    add_volume_binding(volume_builder, job.name, source, target, note, writable, tag)

\* create_kubernetes_runtime, up to its call of add_volumes: the bindings of
\* outdir and tmpdir
create_kubernetes_runtime ==
    /\ pc = "create_kubernetes_runtime"
    /\ \E tag1 \in random_tag(8), tag2 \in random_tag(8) :
         LET src1 == realpath(job.outdir)
             src2 == realpath(job.tmpdir)
             r1 == _add_volume_binding(src1, job.builder_outdir, Note_outdir, TRUE, tag1)
             r2 == add_volume_binding(r1.self, job.name, src2, Str_tmp, Note_tmp,
                                      TRUE, tag2)
             req1 == Request(job.name, src1, job.builder_outdir, Note_outdir, TRUE,
                             "create_kubernetes_runtime")
             req2 == Request(job.name, src2, Str_tmp, Note_tmp, TRUE,
                             "create_kubernetes_runtime")
         IN  IF r1.raised # ""
             THEN /\ steps' = Append(steps, Step("create_kubernetes_runtime", r1.raised))
                  /\ pc' = "raised"
                  /\ UNCHANGED <<volume_builder, requests>>
             ELSE IF r2.raised # ""
             THEN /\ steps' = Append(steps, Step("create_kubernetes_runtime", r2.raised))
                  /\ pc' = "raised"
                  /\ volume_builder' = r1.self
                  /\ requests' = Append(requests, req1)
             ELSE /\ steps' = Append(steps, Step("create_kubernetes_runtime", ""))
                  /\ pc' = "add_volumes"
                  /\ volume_builder' = r2.self
                  /\ requests' = Append(Append(requests, req1), req2)
    /\ UNCHANGED <<result, jobVars, job, fs, client, callbacks, mainVars>>

\* add_volumes, the workflow engine's, is at an item of the path mapper
AtItem == pc = "add_volumes" /\ job.handled < MaxVolumes

\* the method called for an item returns or raises
Handled(raised) ==
    /\ job' = [job EXCEPT !.handled = @ + 1]
    /\ IF raised = "" THEN UNCHANGED <<pc, steps>> ELSE Raise(raised)

\* the method called for an item asks for a binding, and returns or raises
\* as the binding does
Binds(source, target, note, writable, by) ==
    \E tag \in random_tag(8) :
        LET r == _add_volume_binding(source, target, note, writable, tag)
        IN  /\ volume_builder' = r.self
            /\ requests' = IF r.raised = ""
                           THEN Append(requests, Request(job.name, source, target,
                                                         note, writable, by))
                           ELSE requests
            /\ Handled(r.raised)

\* add_file_or_directory_volume
add_file_or_directory_volume(volume, host_outdir_tgt) ==
    /\ AtItem
    /\ IF ~startswith(volume.resolved, <<"_", ":">>)
       THEN Binds(volume.resolved, volume.target, Note_vol, FALSE,
                  "add_file_or_directory_volume")
       ELSE Handled("") /\ UNCHANGED <<volume_builder, requests>>
    /\ UNCHANGED <<result, jobVars, fs, client, callbacks, mainVars>>

\* a variant that binds the original writable whether or not the update is
\* in place
add_writable_file_volume_in_place(volume, host_outdir_tgt) ==
    /\ AtItem
    /\ Binds(volume.resolved, volume.target, Note_vol, TRUE, "add_writable_file_volume")
    /\ UNCHANGED <<result, jobVars, fs, client, callbacks, mainVars>>

\* add_writable_file_volume.  shutil.copy raises when its source is not there,
\* as a synthetic path is not.
add_writable_file_volume(volume, host_outdir_tgt) ==
    /\ AtItem
    /\ IF job.inplace_update
       THEN /\ Binds(volume.resolved, volume.target, Note_vol, TRUE,
                     "add_writable_file_volume")
            /\ UNCHANGED fs
       ELSE IF Truthy(host_outdir_tgt)
       THEN IF startswith(volume.resolved, <<"_", ":">>)
            THEN Handled("FileNotFoundError") /\ UNCHANGED <<volume_builder, requests, fs>>
            ELSE /\ fs' = [fs EXCEPT !.copies = @ \cup
                             {[src |-> volume.resolved, dst |-> host_outdir_tgt]}]
                 /\ Handled("")
                 /\ UNCHANGED <<volume_builder, requests>>
       ELSE LET tmpdir == mkdtemp(job.tmpdir, fs.mkdtemp)
                file_copy == path_join(tmpdir, basename(volume.resolved))
            IN  IF startswith(volume.resolved, <<"_", ":">>)
                THEN /\ fs' = [fs EXCEPT !.made = @ \cup {tmpdir}, !.mkdtemp = @ + 1]
                     /\ Handled("FileNotFoundError")
                     /\ UNCHANGED <<volume_builder, requests>>
                ELSE /\ fs' = [fs EXCEPT !.made = @ \cup {tmpdir}, !.mkdtemp = @ + 1,
                                         !.copies = @ \cup
                                            {[src |-> volume.resolved, dst |-> file_copy]}]
                     /\ Binds(file_copy, volume.target, Note_vol, TRUE,
                              "add_writable_file_volume")
    /\ UNCHANGED <<result, jobVars, client, callbacks, mainVars>>

\* add_writable_directory_volume.  shutil.copytree raises when its source is
\* not there or its destination is.
add_writable_directory_volume(volume, host_outdir_tgt) ==
    /\ AtItem
    /\ IF startswith(volume.resolved, <<"_", ":">>)
       THEN IF ~Truthy(host_outdir_tgt)
            THEN LET tmpdir == mkdtemp(job.tmpdir, fs.mkdtemp)
                     new_dir == path_join(tmpdir, basename(volume.target))
                 IN  /\ fs' = [fs EXCEPT !.made = @ \cup {tmpdir}, !.mkdtemp = @ + 1]
                     /\ Binds(new_dir, volume.target, Note_vol, TRUE,
                              "add_writable_directory_volume")
            ELSE /\ fs' = [fs EXCEPT !.made = @ \cup {host_outdir_tgt}]
                 /\ Handled("")
                 /\ UNCHANGED <<volume_builder, requests>>
       ELSE IF job.inplace_update
       THEN /\ Binds(volume.resolved, volume.target, Note_vol, TRUE,
                     "add_writable_directory_volume")
            /\ UNCHANGED fs
       ELSE IF ~Truthy(host_outdir_tgt)
       THEN LET tmpdir == mkdtemp(job.tmpdir, fs.mkdtemp)
                new_dir == path_join(tmpdir, basename(volume.resolved))
            IN  /\ fs' = [fs EXCEPT !.made = @ \cup {tmpdir, new_dir}, !.mkdtemp = @ + 1,
                                    !.copies = @ \cup
                                       {[src |-> volume.resolved, dst |-> new_dir]}]
                /\ Binds(new_dir, volume.target, Note_vol, TRUE,
                         "add_writable_directory_volume")
       ELSE IF host_outdir_tgt \in fs.made
       THEN Handled("FileExistsError") /\ UNCHANGED <<volume_builder, requests, fs>>
       ELSE /\ fs' = [fs EXCEPT !.made = @ \cup {host_outdir_tgt},
                                !.copies = @ \cup
                                   {[src |-> volume.resolved, dst |-> host_outdir_tgt]}]
            /\ Handled("")
            /\ UNCHANGED <<volume_builder, requests>>
    /\ UNCHANGED <<result, jobVars, client, callbacks, mainVars>>

\* add_volumes itself raises: no place in the output directory for an item
\* when any_path_okay is false, or an item to be created as a file, for which
\* it calls append_volume, not implemented here
add_volumes_raises ==
    /\ pc = "add_volumes"
    /\ \E exception \in {"WorkflowException", "NotImplementedError"} : Raise(exception)
    /\ UNCHANGED <<volVars, jobVars, job, fs, client, callbacks, mainVars>>

\* create_kubernetes_runtime, after add_volumes: the job builder and its build
create_kubernetes_runtime_build ==
    /\ pc = "add_volumes"
    /\ LET k8s_builder == KubernetesJobBuilder(job.name, job.container_image,
                              job.environment, volume_builder.volume_mounts,
                              volume_builder.volumes, job.command_line,
                              job.stdout, job.stderr, job.stdin)
           built == build(k8s_builder)
       IN  /\ job_builder' = built.self
           /\ returned' = Returned("build", built.value, built.raised, k8s_builder)
           /\ IF built.raised = ""
              THEN pc' = "execute_kubernetes_job" /\ UNCHANGED steps
              ELSE Raise(built.raised)
    /\ UNCHANGED <<volVars, job, fs, client, callbacks, mainVars>>

\* KubernetesClient.submit_job: the job is on the cluster
submit_job(c, k8s_job) == [c EXCEPT !.submitted = Append(@, k8s_job.metadata.name)]

\* the phases in which KubernetesClient.wait finds the job when it returns
TerminalPhases == {"succeeded", "failed"}

\* a variant that goes on to finish when the wait fails
wait_for_kubernetes_job_lenient ==
    /\ pc = "wait_for_kubernetes_job"
    /\ \/ \E phase \in TerminalPhases :
            /\ client' = [client EXCEPT !.phase = phase]
            /\ steps' = Append(steps, Step("wait_for_kubernetes_job", ""))
            /\ pc' = "finish"
       \/ /\ steps' = Append(steps, Step("wait_for_kubernetes_job", "WaitError"))
          /\ pc' = "finish"
          /\ UNCHANGED client
    /\ UNCHANGED <<volVars, jobVars, job, fs, callbacks, mainVars>>

\* execute_kubernetes_job: client.submit_job returns or raises
execute_kubernetes_job ==
    /\ pc = "execute_kubernetes_job"
    /\ \/ /\ client' = submit_job(client, returned.value)
          /\ steps' = Append(steps, Step("execute_kubernetes_job", ""))
          /\ pc' = "wait_for_kubernetes_job"
       \/ /\ steps' = Append(steps, Step("execute_kubernetes_job", "SubmissionError"))
          /\ pc' = "raised"
          /\ UNCHANGED client
    /\ UNCHANGED <<volVars, jobVars, job, fs, callbacks, mainVars>>

\* wait_for_kubernetes_job: client.wait returns once the job is in a terminal
\* phase, or raises
wait_for_kubernetes_job ==
    /\ pc = "wait_for_kubernetes_job"
    /\ \/ \E phase \in TerminalPhases :
            /\ client' = [client EXCEPT !.phase = phase]
            /\ steps' = Append(steps, Step("wait_for_kubernetes_job", ""))
            /\ pc' = "finish"
       \/ /\ steps' = Append(steps, Step("wait_for_kubernetes_job", "WaitError"))
          /\ pc' = "raised"
          /\ UNCHANGED client
    /\ UNCHANGED <<volVars, jobVars, job, fs, callbacks, mainVars>>

\* finish: collect_outputs, the workflow engine's, returns or raises
finish ==
    /\ pc = "finish"
    /\ LET status == "success"
       IN  \/ /\ callbacks' = Append(callbacks, status)
              /\ steps' = Append(steps, Step("finish", ""))
              /\ pc' = "done"
           \/ /\ steps' = Append(steps, Step("finish", "WorkflowException"))
              /\ pc' = "raised"
              /\ UNCHANGED callbacks
    /\ UNCHANGED <<volVars, jobVars, job, fs, client, mainVars>>

-----------------------------------------------------------------------------
(* main                                                                    *)

\* signal.SIGTERM
SIGTERM == 15

\* how many jobs the workflow engine submits
MaxJobs == 2

\* how many times the signal is sent
MaxSignals == 2

\* calrissian.podmonitor.delete_pods: one bulk deletion, of every job this
\* process has submitted; a deletion that fails is reported, not raised
delete_pods(c, by) ==
    [c EXCEPT !.delete_calls = Append(@, [jobs |-> c.submitted, by |-> by])]

\* the process ends with this exit code
Exit(code) ==
    /\ main_pc' = "exited"
    /\ proc' = [proc EXCEPT !.exit_code = code, !.frames = <<>>, !.raising = ""]

\* main() is running its own code, not a signal handler
InMain(at) == main_pc = at /\ proc.frames = <<>>

\* main, up to install_signal_handler: parse_arguments ends the process for
\* --version (0) and for missing --max-ram or --max-cores (1)
parse_arguments ==
    /\ InMain("parse_arguments")
    /\ \/ \E code \in {0, 1} : Exit(code)
       \/ main_pc' = "install_signal_handler" /\ UNCHANGED proc
    /\ UNCHANGED <<volVars, jobVars, runVars, cluster>>

\* install_signal_handler
install_signal_handler ==
    /\ InMain("install_signal_handler")
    /\ proc' = [proc EXCEPT !.installed = TRUE]
    /\ main_pc' = "cwlmain"
    /\ UNCHANGED <<volVars, jobVars, runVars, cluster>>

\* cwlmain, the workflow engine's, has one more job submitted
cwlmain_submits ==
    /\ InMain("cwlmain")
    /\ Cardinality(cluster.submitted) < MaxJobs
    /\ cluster' = [cluster EXCEPT !.submitted = @ \cup {Cardinality(@) + 1}]
    /\ UNCHANGED <<volVars, jobVars, runVars, main_pc, proc>>

\* cwlmain returns its result code, or raises; either way the finally clause
\* of main is next
cwlmain_ends ==
    /\ InMain("cwlmain")
    /\ \/ \E code \in {0, 1} : proc' = [proc EXCEPT !.result = code]
       \/ proc' = [proc EXCEPT !.raising = "Exception"]
    /\ main_pc' = "finally"
    /\ UNCHANGED <<volVars, jobVars, runVars, cluster>>

\* the finally clause of main: delete_pods(), then on with what was under way:
\* the return of result, or the exception in flight, which ends the process
\* (SystemExit with its code, any other with 1)
main_finally ==
    /\ InMain("finally")
    /\ cluster' = delete_pods(cluster, "main")
    /\ IF proc.raising = "" THEN main_pc' = "return" /\ UNCHANGED proc
       ELSE IF proc.raising = "SystemExit" THEN Exit(proc.exit_code)
       ELSE Exit(1)
    /\ UNCHANGED <<volVars, jobVars, runVars>>

\* sys.exit(main())
main_returns ==
    /\ InMain("return")
    /\ Exit(proc.result)
    /\ UNCHANGED <<volVars, jobVars, runVars, cluster>>

\* SIGTERM is sent to the process: before the handler is installed it ends
\* the process (128 + signum is what a shell shows); after, Python calls
\* handle_sigterm in the main thread, on top of whatever is running there
sigterm ==
    /\ main_pc \notin {"", "exited"}
    /\ proc.signals < MaxSignals
    /\ IF proc.installed
       THEN /\ proc' = [proc EXCEPT !.signals = @ + 1, !.handled = @ + 1,
                                    !.frames = Append(@, "delete_pods")]
            /\ UNCHANGED main_pc
       ELSE /\ main_pc' = "exited"
            /\ proc' = [proc EXCEPT !.signals = @ + 1, !.exit_code = 128 + SIGTERM]
    /\ UNCHANGED <<volVars, jobVars, runVars, cluster>>

\* sys.exit(code) in a signal handler: SystemExit leaves every handler frame
\* and is raised where main() was; in the try block that is the way into the
\* finally clause, elsewhere it ends the process
sys_exit(code) ==
    IF main_pc = "cwlmain"
    THEN /\ main_pc' = "finally"
         /\ proc' = [proc EXCEPT !.frames = <<>>, !.raising = "SystemExit",
                                 !.exit_code = code]
    ELSE Exit(code)

\* a variant that ends the process as if nothing had happened
handle_sigterm_exit_0 ==
    /\ proc.frames # <<>>
    /\ LET signum == SIGTERM
           top == Len(proc.frames)
       IN  \/ /\ proc.frames[top] = "delete_pods"
              /\ cluster' = delete_pods(cluster, "handle_sigterm")
              /\ proc' = [proc EXCEPT !.frames[top] = "sys.exit"]
              /\ UNCHANGED main_pc
           \/ /\ proc.frames[top] = "sys.exit"
              /\ sys_exit(0)
              /\ UNCHANGED cluster
    /\ UNCHANGED <<volVars, jobVars, runVars>>

\* handle_sigterm(signum, frame), in two steps: delete_pods(), sys.exit(signum)
handle_sigterm ==
    /\ proc.frames # <<>>
    /\ LET signum == SIGTERM
           top == Len(proc.frames)
       IN  \/ /\ proc.frames[top] = "delete_pods"
              /\ cluster' = delete_pods(cluster, "handle_sigterm")
              /\ proc' = [proc EXCEPT !.frames[top] = "sys.exit"]
              /\ UNCHANGED main_pc
           \/ /\ proc.frames[top] = "sys.exit"
              /\ sys_exit(signum)
              /\ UNCHANGED cluster
    /\ UNCHANGED <<volVars, jobVars, runVars>>

-----------------------------------------------------------------------------
(* The volume builder on its own: entries are registered and bindings      *)
(* requested in any order                                                  *)

\* how many entries are registered beyond the demo values
MaxEntries == 2

\* how many bindings one builder is asked for
MaxBindings == 2

Path_data == <<"/","d","a","t","a">>
Path_data_sub == <<"/","d","a","t","a","/","s","u","b">>
Path_data_sub_file == <<"/","d","a","t","a","/","s","u","b","/","f","i","l","e",".","t","x","t">>
Path_database == <<"/","d","a","t","a","b","a","s","e">>
Path_other_file == <<"/","o","t","h","e","r","/","f","i","l","e",".","t","x","t">>

RegPrefixes == {Path_data, Path_data_sub}
ClaimNames == {"claim-A", "claim-B"}

VolumeSources ==
    {Path_data_sub_file, Path_database, Path_other_file,
     Prefix_local_tmpout \o <<"/", "y">>}

BaseNames == {<<"s", "_", "1">>}
VolumeTargets == {<<"/", "t">>}

\* note and writable as the callers pair them
VolumeRequests ==
    {[note |-> <<"o","u","t","d","i","r">>, writable |-> TRUE],
     [note |-> <<"v","o","l">>, writable |-> FALSE]}

InitVolume ==
    /\ volume_builder = KubernetesVolumeBuilder
    /\ requests = <<>>
    /\ result = Call("__init__", NoneStr, None, "")
    /\ job_builder = None
    /\ returned = Returned("", None, "", None)
    /\ RunIdle
    /\ MainIdle

\* entries are registered while the builder is set up, before it is asked
\* for bindings
AddPersistentVolumeEntry ==
    \E prefix \in RegPrefixes, claim_name \in ClaimNames :
        LET entries == volume_builder.persistent_volume_entries
        IN  /\ volume_builder.volumes = <<>>
            /\ \/ Len(entries) < Len(populate_demo_values) + MaxEntries
               \/ \E i \in 1..Len(entries) : entries[i].prefix = prefix
            /\ volume_builder' =
                 [volume_builder EXCEPT !.persistent_volume_entries =
                     add_persistent_volume_entry(entries, prefix, claim_name)]
            /\ result' = Call("add_persistent_volume_entry", NoneStr, None, "")
            /\ UNCHANGED <<requests, jobVars, runVars, mainVars>>

\* a call is left out only when it would take the builder past MaxBindings
AddVolumeBinding ==
    \E source \in VolumeSources :
        /\ \/ Len(volume_builder.volumes) < MaxBindings
           \/ find_persistent_volume(volume_builder.persistent_volume_entries,
                                     source) = None
        /\ \E base_name \in BaseNames, target \in VolumeTargets,
              req \in VolumeRequests, tag \in random_tag(8) :
             LET r == add_volume_binding(volume_builder, base_name, source, target,
                                         req.note, req.writable, tag)
             IN  /\ volume_builder' = r.self
                 /\ requests' =
                      IF r.raised = ""
                      THEN Append(requests, Request(base_name, source, target,
                                                    req.note, req.writable, "run"))
                      ELSE requests
                 /\ result' = Call("add_volume_binding", source, r.pv, r.raised)
        /\ UNCHANGED <<jobVars, runVars, mainVars>>

NextVolume == AddPersistentVolumeEntry \/ AddVolumeBinding

SpecVolume == InitVolume /\ [][NextVolume]_vars

-----------------------------------------------------------------------------
(* Properties of the volume builder                                        *)

\* the indices of the entries whose prefix is an initial segment of source
Matching(entries, source) ==
    {i \in 1..Len(entries) :
        \E k \in 0..Len(source) : SubSeq(source, 1, k) = entries[i].prefix}

\* the entry the lookup is to give: the matching one registered first
FirstMatching(entries, source) ==
    LET M == Matching(entries, source)
    IN  IF M = {} THEN None
        ELSE entries[CHOOSE i \in M : \A j \in M : i <= j]

LastBinding ==
    [volume |-> volume_builder.volumes[Len(volume_builder.volumes)],
     mount |-> volume_builder.volume_mounts[Len(volume_builder.volume_mounts)]]

\* C1: find_persistent_volume gives the first entry, in the order of
\* registration, whose prefix is a string prefix of the path, and None when no
\* prefix matches; a binding made for a path carries the claim of that entry
\* and, as subPath, the path with the entry's prefix taken off its front.
C1_FirstMatchAndSubPath ==
    LET entries == volume_builder.persistent_volume_entries
    IN  /\ \A source \in VolumeSources :
             find_persistent_volume(entries, source) = FirstMatching(entries, source)
        /\ (result.op = "add_volume_binding" /\ result.raised = "") =>
             /\ result.pv = FirstMatching(entries, result.source)
             /\ result.pv.prefix \o LastBinding.mount.subPath = result.source
             /\ LastBinding.volume.persistentVolumeClaim
                   = result.pv.volume.persistentVolumeClaim
        /\ (result.op = "add_volume_binding" /\ result.raised # "") =>
             Matching(entries, result.source) = {}

\* /data was registered before /data/sub, and /data/sub/file.txt was bound:
\* claim and subPath are those of /data
C1_Witness ==
    /\ result.op = "add_volume_binding"
    /\ result.source = Path_data_sub_file
    /\ Cardinality(Matching(volume_builder.persistent_volume_entries,
                            Path_data_sub_file)) = 2
    /\ result.pv.prefix = Path_data
    /\ LastBinding.mount.subPath = <<"/","s","u","b","/","f","i","l","e",".","t","x","t">>
    /\ LastBinding.volume.persistentVolumeClaim.claimName = "claim-A"

\* volumes and volume_mounts go in step: equally long, the i-th of each
\* under one name
C2_InStep ==
    /\ Len(volume_builder.volumes) = Len(volume_builder.volume_mounts)
    /\ \A i \in 1..Len(volume_builder.volumes) :
          volume_builder.volumes[i].name = volume_builder.volume_mounts[i].name

\* what one call does to the two lists
C2_Step ==
    LET old == volume_builder
        new == volume_builder'
        n == Len(old.volumes)
        m == Len(old.volume_mounts)
    IN  \/ /\ result'.op = "add_volume_binding"
           /\ result'.raised = ""
           /\ Len(new.volumes) = n + 1
           /\ Len(new.volume_mounts) = m + 1
           /\ SubSeq(new.volumes, 1, n) = old.volumes
           /\ SubSeq(new.volume_mounts, 1, m) = old.volume_mounts
           /\ new.volumes[n + 1].name = new.volume_mounts[m + 1].name
        \/ /\ result'.op = "add_volume_binding"
           /\ result'.raised = "VolumeBuilderException"
           /\ Matching(old.persistent_volume_entries, result'.source) = {}
           /\ new.volumes = old.volumes
           /\ new.volume_mounts = old.volume_mounts
        \/ /\ result'.op # "add_volume_binding"
           /\ new.volumes = old.volumes
           /\ new.volume_mounts = old.volume_mounts

\* C2: every add_volume_binding call either appends one volume and one mount
\* of the same name to the ends of the two lists, leaving what was there in
\* place, or raises VolumeBuilderException, when no entry matches the source,
\* and leaves both lists as they were; so the lists stay equally long, the
\* i-th volume and the i-th mount share a name, and nothing is removed or
\* merged.
C2_AppendOnly == []C2_InStep /\ [][C2_Step]_vars

\* one source was bound twice, giving two bindings, and a later call raised
C2_Witness ==
    /\ Len(volume_builder.volume_mounts) = 2
    /\ requests[1].source = requests[2].source
    /\ volume_builder.volume_mounts[1].subPath = volume_builder.volume_mounts[2].subPath
    /\ result.op = "add_volume_binding"
    /\ result.raised = "VolumeBuilderException"

\* C4: bindings of one builder made with the same base name and the same note
\* have pairwise distinct names.
C4_NamesDistinct ==
    \A i, j \in 1..Len(requests) :
        (/\ i # j
         /\ requests[i].base_name = requests[j].base_name
         /\ requests[i].note = requests[j].note)
        => volume_builder.volumes[i].name # volume_builder.volumes[j].name

-----------------------------------------------------------------------------
(* The job builder on its own: a builder is made from any of the inputs    *)
(* below, and container_args and build are called on it                    *)

\* how many tokens a command line has
MaxTokens == 2

Tokens == {<<"e","c","h","o">>, <<"h","i">>}
Str_out_txt == <<"o","u","t",".","t","x","t">>
Str_err_txt == <<"e","r","r",".","t","x","t">>
Str_in_txt == <<"i","n",".","t","x","t">>

CommandLines == UNION {[1..n -> Tokens] : n \in 0..MaxTokens}

JobNames == {<<"s", "_", "1">>, <<"e","c","h","o">>}

Environments ==
    {<<>>,
     <<[name |-> "HOME", value |-> "/out"]>>,
     <<[name |-> "HOME", value |-> "/out"], [name |-> "TMPDIR", value |-> "/tmp"]>>,
     <<[name |-> "TMPDIR", value |-> "/tmp"], [name |-> "PATH", value |-> "/bin"],
       [name |-> "HOME", value |-> "/work"]>>}

\* the lists of a volume builder: fresh, and after one binding
BuiltVolumes ==
    {KubernetesVolumeBuilder,
     add_volume_binding(KubernetesVolumeBuilder, <<"s", "_", "1">>,
                        Prefix_tmpout \o <<"/", "x">>, <<"/", "t">>,
                        <<"t","m","p">>, TRUE, <<"a","a","a","a","a","a","a","a">>).self}

InitJob ==
    /\ volume_builder = KubernetesVolumeBuilder
    /\ requests = <<>>
    /\ result = Call("__init__", NoneStr, None, "")
    /\ \E name \in JobNames, environment \in Environments, vb \in BuiltVolumes,
          command_line \in CommandLines,
          stdout \in {NoneStr, Str_out_txt}, stderr \in {NoneStr, Str_err_txt},
          stdin \in {NoneStr, Str_in_txt} :
          job_builder = KubernetesJobBuilder(name, "image", environment,
                                             vb.volume_mounts, vb.volumes,
                                             command_line, stdout, stderr, stdin)
    /\ returned = Returned("__init__", None, "", None)
    /\ RunIdle
    /\ MainIdle

ContainerArgs ==
    LET r == container_args(job_builder)
    IN  /\ job_builder' = r.self
        /\ returned' = Returned("container_args", r.value, "", job_builder)
        /\ UNCHANGED <<volVars, runVars, mainVars>>

Build ==
    LET r == build(job_builder)
    IN  /\ job_builder' = r.self
        /\ returned' = Returned("build", r.value, r.raised, job_builder)
        /\ UNCHANGED <<volVars, runVars, mainVars>>

NextJob == ContainerArgs \/ Build

SpecJob == InitJob /\ [][NextJob]_vars

-----------------------------------------------------------------------------
(* Properties of the job builder                                           *)

\* the words of the shell line, in the order they are to appear
ShellWords(b) ==
    b.command_line
    \o (IF b.stdout = NoneStr THEN <<>> ELSE <<<<">">>, b.stdout>>)
    \o (IF b.stderr = NoneStr THEN <<>> ELSE <<<<"2", ">">>, b.stderr>>)
    \o (IF b.stdin = NoneStr THEN <<>> ELSE <<<<"<">>, b.stdin>>)

RECURSIVE StartOf(_, _)
\* where the k-th word starts in a line whose words are one space apart
StartOf(words, k) ==
    IF k = 1 THEN 1 ELSE StartOf(words, k - 1) + Len(words[k - 1]) + 1

\* line is words, each separated from the next by exactly one space
SpacedOut(line, words) ==
    IF words = <<>> THEN line = <<>>
    ELSE /\ Len(line) = StartOf(words, Len(words)) + Len(words[Len(words)]) - 1
         /\ \A k \in 1..Len(words) :
              /\ SubSeq(line, StartOf(words, k),
                        StartOf(words, k) + Len(words[k]) - 1) = words[k]
              /\ k > 1 => line[StartOf(words, k) - 1] = " "

\* C5: container_args returns a list of one string: the tokens of the command
\* line one space apart, then "> stdout" if stdout is set, then "2> stderr"
\* if stderr is set, then "< stdin" if stdin is set, in that order; the
\* builder's command_line is left as it was.
C5_ContainerArgs ==
    returned.op = "container_args" =>
        /\ Len(returned.value) = 1
        /\ SpacedOut(returned.value[1], ShellWords(returned.before))
        /\ job_builder.command_line = returned.before.command_line

\* ['echo', 'hi'] with stdout out.txt and stderr err.txt
C5_Witness ==
    /\ returned.op = "container_args"
    /\ returned.before.command_line = <<<<"e","c","h","o">>, <<"h","i">>>>
    /\ returned.before.stdout = Str_out_txt
    /\ returned.before.stderr = Str_err_txt
    /\ returned.before.stdin = NoneStr
    /\ returned.value = <<<<"e","c","h","o"," ","h","i"," ",">"," ","o","u","t",".","t","x","t"," ","2",">"," ","e","r","r",".","t","x","t">>>>

\* C6: a descriptor returned by build has restartPolicy Never, one container,
\* the command /bin/sh -c, one env item for each key of the environment, with
\* the key's value, and the value of HOME as workingDir.
C6_Descriptor ==
    (returned.op = "build" /\ returned.raised = "") =>
        LET podspec == returned.value.spec.template.spec
            container == podspec.containers[1]
            environment == returned.before.environment
        IN  /\ podspec.restartPolicy = "Never"
            /\ Len(podspec.containers) = 1
            /\ container.command = <<"/bin/sh", "-c">>
            /\ Len(container.env) = Len(environment)
            /\ \A i \in 1..Len(environment) :
                 Cardinality({j \in 1..Len(container.env) :
                     container.env[j].name = environment[i].name}) = 1
            /\ \A j \in 1..Len(container.env) :
                 \E i \in 1..Len(environment) :
                     /\ container.env[j].name = environment[i].name
                     /\ container.env[j].value = environment[i].value
            /\ \E i \in 1..Len(environment) :
                 /\ environment[i].name = "HOME"
                 /\ container.workingDir = environment[i].value

\* a descriptor was built from an environment of three keys, HOME the last
C6_Witness ==
    /\ returned.op = "build"
    /\ returned.raised = ""
    /\ Len(returned.before.environment) = 3
    /\ returned.value.spec.template.spec.containers[1].workingDir = "/work"
    /\ returned.value.spec.template.spec.containers[1].args
          = <<<<"e","c","h","o"," ","h","i"," ",">"," ","o","u","t",".","t","x","t"," ","2",">"," ","e","r","r",".","t","x","t">>>>

-----------------------------------------------------------------------------
(* One job, from its construction to the end of run()                      *)

Path_input_f == Prefix_input_data \o <<"/", "f">>
Path_synthetic == <<"_", ":", "d">>
Str_builder_outdir == <<"/","w">>

Outdirs == {Prefix_output_data \o <<"/","o">>, Symlink \o <<"/","o">>,
            <<"/","h","o","m","e","/","o">>}
Tmpdirs == {Prefix_tmptmp \o <<"/","t">>, <<"/","v","a","r","/","t">>}

\* the items of the path mapper: resolved and target of each
MapperEnts ==
    {[resolved |-> Path_input_f, target |-> <<"/","i","n","/","f">>],
     [resolved |-> Path_synthetic, target |-> Str_builder_outdir \o <<"/","d">>]}

\* the place add_volumes works out for an item in the output directory, or None
HostOutdirTgts == {NoneStr, path_join(job.outdir, <<"d">>)}

InitRun ==
    /\ volume_builder = KubernetesVolumeBuilder
    /\ requests = <<>>
    /\ result = Call("__init__", NoneStr, None, "")
    /\ job_builder = None
    /\ returned = Returned("", None, "", None)
    /\ \E outdir \in Outdirs, tmpdir \in Tmpdirs, inplace_update \in BOOLEAN :
          job = [name |-> <<"s","_","1">>, container_image |-> "image",
                 outdir |-> outdir, tmpdir |-> tmpdir,
                 builder_outdir |-> Str_builder_outdir,
                 inplace_update |-> inplace_update,
                 environment |-> <<[name |-> "HOME", value |-> <<"/","h">>]>>,
                 command_line |-> <<<<"c","p">>>>,
                 stdout |-> Str_out_txt, stderr |-> NoneStr, stdin |-> NoneStr,
                 handled |-> 0]
    /\ pc = "make_tmpdir"
    /\ steps = <<>>
    /\ \E made \in {{}, {job.tmpdir}} :
          fs = [made |-> made, copies |-> {}, mkdtemp |-> 0]
    /\ client = [submitted |-> <<>>, phase |-> ""]
    /\ callbacks = <<>>
    /\ MainIdle

\* add_volumes calls one of the three methods for the item it is at
AddFileOrDirectoryVolume ==
    \E volume \in MapperEnts, host_outdir_tgt \in HostOutdirTgts :
        add_file_or_directory_volume(volume, host_outdir_tgt)

AddWritableFileVolume ==
    \E volume \in MapperEnts, host_outdir_tgt \in HostOutdirTgts :
        add_writable_file_volume(volume, host_outdir_tgt)

AddWritableDirectoryVolume ==
    \E volume \in MapperEnts, host_outdir_tgt \in HostOutdirTgts :
        add_writable_directory_volume(volume, host_outdir_tgt)

NextRun ==
    \/ make_tmpdir
    \/ populate_env_vars
    \/ _setup
    \/ create_kubernetes_runtime
    \/ AddFileOrDirectoryVolume
    \/ AddWritableFileVolume
    \/ AddWritableDirectoryVolume
    \/ add_volumes_raises
    \/ create_kubernetes_runtime_build
    \/ execute_kubernetes_job
    \/ wait_for_kubernetes_job
    \/ finish

SpecRun == InitRun /\ [][NextRun]_vars

-----------------------------------------------------------------------------
(* Properties of run()                                                     *)

RunOrder ==
    <<"make_tmpdir", "populate_env_vars", "_setup", "create_kubernetes_runtime",
      "execute_kubernetes_job", "wait_for_kubernetes_job", "finish">>

\* C7: the steps of run() are taken in one order, each at most once; a step
\* that fails is the last one taken; the job is submitted at most once, only
\* once the descriptor is built, and once when run() ends; the callback is
\* called at most once, only after the wait has returned, and never when a
\* step has failed.
C7_StrictSequence ==
    /\ Len(steps) <= Len(RunOrder)
    /\ \A i \in 1..Len(steps) : steps[i].step = RunOrder[i]
    /\ \A i \in 1..Len(steps) : steps[i].raised # "" => (i = Len(steps) /\ pc = "raised")
    /\ Len(client.submitted) <= 1
    /\ client.submitted # <<>> =>
          /\ returned.op = "build"
          /\ returned.raised = ""
          /\ client.submitted[1] = returned.value.metadata.name
          /\ Len(steps) >= 5
    /\ pc = "done" => (Len(client.submitted) = 1 /\ Len(callbacks) = 1)
    /\ Len(callbacks) <= 1
    /\ callbacks # <<>> =>
          /\ Len(steps) = 7
          /\ steps[6].raised = ""
          /\ client.phase \in TerminalPhases
    /\ pc = "raised" => callbacks = <<>>

\* run() went through all seven steps, with bindings from add_volumes
C7_Witness ==
    /\ pc = "done"
    /\ Len(steps) = 7
    /\ callbacks = <<"success">>
    /\ Len(client.submitted) = 1
    /\ Len(requests) = 2 + MaxVolumes

\* C8: the status given to the callback is that of the job: success only when
\* the job succeeded, and not success when it failed.
C8_StatusFollowsPhase ==
    \A i \in 1..Len(callbacks) :
        callbacks[i] = "success" <=> client.phase = "succeeded"

\* the paths the path mapper gives as resolved
Originals == {volume.resolved : volume \in MapperEnts}

\* path lies in a directory mkdtemp made in the job's tmpdir
InFreshTmp(path) ==
    \E dir \in fs.made :
        /\ \E k \in 1..Len(dir) :
              /\ SubSeq(dir, 1, k) = job.tmpdir \o <<"/">>
              /\ \A i \in k + 1..Len(dir) : dir[i] # "/"
        /\ \E k \in 1..Len(path) : SubSeq(path, 1, k) = dir \o <<"/">>

\* C10: in a descriptor the first two mounts are the output directory, at
\* the builder's outdir, and the tmpdir, at /tmp, both writable; a binding of
\* add_file_or_directory_volume is read-only and never of a synthetic path;
\* unless the update is in place, no writable binding has a resolved path of
\* the path mapper as its source: what the two writable methods bind is a
\* copy in a fresh directory under tmpdir (for a synthetic directory, a new
\* path there); a resolved path is bound writable only when the update is in
\* place.
C10_Bindings ==
    LET mounts == volume_builder.volume_mounts
    IN  /\ (returned.op = "build" /\ returned.raised = "") =>
              LET container == returned.value.spec.template.spec.containers[1]
              IN  /\ container.volumeMounts = mounts
                  /\ Len(mounts) >= 2
                  /\ requests[1].source \in {job.outdir, realpath(job.outdir)}
                  /\ mounts[1].mountPath = job.builder_outdir
                  /\ ~mounts[1].readOnly
                  /\ requests[2].source \in {job.tmpdir, realpath(job.tmpdir)}
                  /\ mounts[2].mountPath = Str_tmp
                  /\ ~mounts[2].readOnly
        /\ Len(requests) = Len(mounts)
        /\ \A i \in 1..Len(mounts) :
              /\ requests[i].by = "add_file_or_directory_volume" =>
                    /\ mounts[i].readOnly
                    /\ SubSeq(requests[i].source, 1, 2) # <<"_", ":">>
              /\ (~mounts[i].readOnly /\ requests[i].source \in Originals) =>
                    job.inplace_update
              /\ (/\ ~mounts[i].readOnly
                  /\ ~job.inplace_update
                  /\ requests[i].by # "create_kubernetes_runtime") =>
                    /\ InFreshTmp(requests[i].source)
                    /\ \/ \E c \in fs.copies :
                             c.dst = requests[i].source /\ c.src \in Originals
                       \/ requests[i].by = "add_writable_directory_volume"

\* a descriptor built, not in place, with a read-only binding of an input and
\* a writable binding of its copy
C10_Witness ==
    /\ returned.op = "build"
    /\ returned.raised = ""
    /\ ~job.inplace_update
    /\ Len(requests) = 4
    /\ requests[3].by = "add_file_or_directory_volume"
    /\ requests[3].source = Path_input_f
    /\ volume_builder.volume_mounts[3].readOnly
    /\ requests[4].by = "add_writable_file_volume"
    /\ [src |-> Path_input_f, dst |-> requests[4].source] \in fs.copies
    /\ ~volume_builder.volume_mounts[4].readOnly

-----------------------------------------------------------------------------
(* The process from the start of main() to its exit                        *)

InitMain ==
    /\ volume_builder = KubernetesVolumeBuilder
    /\ requests = <<>>
    /\ result = Call("__init__", NoneStr, None, "")
    /\ job_builder = None
    /\ returned = Returned("", None, "", None)
    /\ RunIdle
    /\ main_pc = "parse_arguments"
    /\ proc = [installed |-> FALSE, frames |-> <<>>, raising |-> "", signals |-> 0,
               handled |-> 0, result |-> -1, exit_code |-> -1]
    /\ cluster = [submitted |-> {}, delete_calls |-> <<>>]

NextMain ==
    \/ parse_arguments
    \/ install_signal_handler
    \/ cwlmain_submits
    \/ cwlmain_ends
    \/ main_finally
    \/ main_returns
    \/ sigterm
    \/ handle_sigterm

SpecMain == InitMain /\ [][NextMain]_vars

\* the interpreter keeps running the main thread: a handler that was entered
\* runs on, and so does the finally clause
FairSpecMain ==
    SpecMain /\ WF_vars(handle_sigterm) /\ WF_vars(main_finally)

-----------------------------------------------------------------------------
(* Properties of main                                                      *)

\* what holds of a process that has ended
C9_AtExit ==
    main_pc = "exited" =>
        /\ proc.handled > 0 =>
              /\ \E i \in 1..Len(cluster.delete_calls) :
                    /\ cluster.delete_calls[i].by = "handle_sigterm"
                    /\ cluster.delete_calls[i].jobs = cluster.submitted
              /\ proc.exit_code = SIGTERM
        /\ (proc.signals = 0 /\ proc.result # -1) => proc.exit_code = proc.result

\* C9: when SIGTERM reaches the installed handler, the process ends only
\* after handle_sigterm has called delete_pods for all the jobs the process
\* submitted, and ends with the signal number as exit code; when no signal
\* comes, it ends with the result code cwlmain returned.
C9_Interrupt ==
    /\ []C9_AtExit
    /\ [](proc.handled > 0 => <>(main_pc = "exited"))

\* the signal came while jobs were submitted and cwlmain had not returned;
\* the process is gone, the jobs deleted, the exit code 15
C9_Witness ==
    /\ main_pc = "exited"
    /\ proc.handled > 0
    /\ proc.result = -1
    /\ Cardinality(cluster.submitted) = 2
    /\ proc.exit_code = 15
    /\ cluster.delete_calls[1] = [jobs |-> {1, 2}, by |-> "handle_sigterm"]

\* C11: a process that got as far as the try block of main (the handler is
\* installed just before it) and has ended, whether cwlmain returned, raised
\* or was interrupted by a signal that handle_sigterm handled, has called
\* delete_pods exactly once: not zero times, not twice.
C11_DeletePodsExactlyOnce ==
    (main_pc = "exited" /\ proc.installed) => Len(cluster.delete_calls) = 1

-----------------------------------------------------------------------------
(* Names                                                                   *)

LowerAlnum ==
    {"a","b","c","d","e","f","g","h","i","j","k","l","m","n","o","p","q","r",
     "s","t","u","v","w","x","y","z","0","1","2","3","4","5","6","7","8","9"}

\* [a-z0-9]([-a-z0-9]*[a-z0-9])?(\.[a-z0-9]([-a-z0-9]*[a-z0-9])?)* :
\* labels of lower case alphanumerics and '-', each starting and ending with
\* an alphanumeric, with '.' between them
IsDNS1123Subdomain(name) ==
    /\ Len(name) > 0
    /\ \A i \in 1..Len(name) : name[i] \in LowerAlnum \cup {"-", "."}
    /\ name[1] \in LowerAlnum
    /\ name[Len(name)] \in LowerAlnum
    /\ \A i \in 1..Len(name) :
          name[i] = "." => (name[i - 1] \in LowerAlnum /\ name[i + 1] \in LowerAlnum)

SafeName(name) ==
    /\ \A i \in 1..Len(name) : name[i] # "_"
    /\ IsDNS1123Subdomain(name)

\* C3: every generated name, of a volume and its mount, of a job and of its
\* container, has no underscore and is a DNS-1123 subdomain.
C3_NamesSafe ==
    /\ \A i \in 1..Len(volume_builder.volumes) :
          SafeName(volume_builder.volumes[i].name)
    /\ \A i \in 1..Len(volume_builder.volume_mounts) :
          SafeName(volume_builder.volume_mounts[i].name)
    /\ (returned.op = "build" /\ returned.raised = "") =>
          /\ SafeName(returned.value.metadata.name)
          /\ SafeName(returned.value.spec.template.spec.containers[1].name)

=============================================================================
